---- MODULE Spec2Model ----
(***************************************************************************)
(* State-machine model of the chat client: the conversation engine         *)
(* (frontend/src/components/ChatInterface.tsx, frontend/src/lib/api.ts),   *)
(* the feedback buttons of its message bubbles (MessageBubble.tsx) and the *)
(* identity store (frontend/src/lib/auth.tsx).                             *)
(*                                                                         *)
(* React state (useState) is the model's state.  An event handler runs to  *)
(* its first await as one step; the continuation after an await is one     *)
(* step taken when the gateway call settles.  Calls in flight sit in       *)
(* `calls`; they settle in any order.  A continuation keeps the values its *)
(* handler closed over (the call record carries them), while functional    *)
(* updates (setMessages(prev => ...)) read the state of the settling step. *)
(* The service is outside the program: it answers a call at the moment the *)
(* call settles, from the sessions and histories it holds then.            *)
(***************************************************************************)
EXTENDS Integers, Sequences, FiniteSets, Bags, TLC

\* ---------------------------------------------------------------- bounds
MaxClicks == 2        \* user actions (clicks, sends) in one behaviour
MaxClock  == 1        \* milliseconds the clock may advance past ClockBase
MaxFeedback == 2      \* clicks on feedback buttons in one behaviour
MaxAuth   == 3        \* logins, registrations, logouts and reloads in one behaviour

ClockBase == 1000     \* Date.now() at page load (far from the server's ids)

\* ------------------------------------------------------------------ text
\* A string is a sequence of one-character strings.
LowerAlpha == <<"a","b","c","d","e","f","g","h","i","j","k","l","m",
                "n","o","p","q","r","s","t","u","v","w","x","y","z">>
UpperAlpha == <<"A","B","C","D","E","F","G","H","I","J","K","L","M",
                "N","O","P","Q","R","S","T","U","V","W","X","Y","Z">>

IsSpace(c) == c \in {" ", "\t", "\n"}

toUpperChar(c) ==
  IF \E i \in 1..26 : LowerAlpha[i] = c
  THEN UpperAlpha[CHOOSE i \in 1..26 : LowerAlpha[i] = c]
  ELSE c

toLowerChar(c) ==
  IF \E i \in 1..26 : UpperAlpha[i] = c
  THEN LowerAlpha[CHOOSE i \in 1..26 : UpperAlpha[i] = c]
  ELSE c

\* stands for the one character U+00DF (sharp s), whose upper case is "SS"
Eszett == "sz"

\* String.prototype.toUpperCase of a one-character string: the full case
\* mapping, which gives more than one character for some
toUpperCase(c) == IF c = Eszett THEN <<"S", "S">> ELSE <<toUpperChar(c)>>

toLowerCase(s) == [i \in 1..Len(s) |-> toLowerChar(s[i])]

\* String.prototype.trim
RECURSIVE TrimLeft(_)
TrimLeft(s) == IF s # <<>> /\ IsSpace(Head(s)) THEN TrimLeft(Tail(s)) ELSE s

RECURSIVE TrimRight(_)
TrimRight(s) ==
  IF s # <<>> /\ IsSpace(s[Len(s)]) THEN TrimRight(SubSeq(s, 1, Len(s) - 1)) ELSE s

trim(s) == TrimRight(TrimLeft(s))

\* s.replace(/\s+/g, " ")
\* (each run of white space gives one " ", at the place of its first character;
\* the text is halved at each level to keep the evaluation shallow)
RECURSIVE CollapseRange(_, _, _)
CollapseRange(s, lo, hi) ==
  IF lo > hi THEN <<>>
  ELSE IF lo = hi
       THEN (IF ~IsSpace(s[lo]) THEN <<s[lo]>>
             ELSE IF lo > 1 /\ IsSpace(s[lo - 1]) THEN <<>> ELSE <<" ">>)
       ELSE LET mid == (lo + hi) \div 2
            IN CollapseRange(s, lo, mid) \o CollapseRange(s, mid + 1, hi)

CollapseSpaces(s) == CollapseRange(s, 1, Len(s))

\* s.slice(0, n) for 0 <= n
slice(s, n) == SubSeq(s, 1, IF n < Len(s) THEN n ELSE Len(s))

\* s.lastIndexOf(" "): 0-based index, -1 when absent
lastIndexOf(s, c) ==
  IF \E i \in 1..Len(s) : s[i] = c
  THEN (CHOOSE i \in 1..Len(s) : s[i] = c /\ \A j \in (i+1)..Len(s) : s[j] # c) - 1
  ELSE -1

TitleMax == 60
TitleMinCut == 30
NewChat == <<"N","e","w"," ","c","h","a","t">>

makeTitleCandidate(raw) ==
  LET c0   == CollapseSpaces(trim(raw))
      head == slice(c0, TitleMax)
      cut  == lastIndexOf(head, " ")
      cand == IF Len(c0) > TitleMax
              THEN (IF cut >= TitleMinCut THEN slice(head, cut) ELSE head)
              ELSE c0
  IN IF cand # <<>> THEN toUpperCase(cand[1]) \o Tail(cand) ELSE NewChat

\* --------------------------------------------------------- number <-> text
Digits == <<"0","1","2","3","4","5","6","7","8","9">>

\* String(id) for 0 <= id < 100
String(n) ==
  IF n < 10 THEN <<Digits[n + 1]>> ELSE <<Digits[(n \div 10) + 1], Digits[(n % 10) + 1]>>

DigitValue(c) == (CHOOSE i \in 1..10 : Digits[i] = c) - 1

RECURSIVE DecimalValue(_)
DecimalValue(s) ==
  IF s = <<>> THEN 0 ELSE 10 * DecimalValue(SubSeq(s, 1, Len(s) - 1)) + DigitValue(s[Len(s)])

\* ------------------------------------------------------------------ state
VARIABLES
  viewState,          \* useState<ViewState>
  messages,           \* useState<ChatTurn[]>: the transcript
  currentMessage,     \* useState(""): the input box
  isLoading,          \* useState(false)
  currentSession,     \* useState<ChatSession | null>
  sessions,           \* useState<ChatSession[]>
  error,              \* useState("")
  sidebarOpen,        \* useState(false)
  active_session_id,  \* localStorage["active_session_id"] (<<>> when absent)
  session_id,         \* localStorage["session_id"] (<<>> when absent)
  bootPc,             \* where the boot effect stands
  calls,              \* bag of gateway calls in flight
  srvSessions,        \* the service: its sessions, in the order /sessions lists them
  srvHistory,         \* the service: srvHistory[id] is the history of session id
  now,                \* Date.now()
  nClicks,            \* user actions so far
  lastCall,           \* the handler or continuation that ran last
  bubbles,            \* MessageBubble state by React key (message id): feedback, submittingFeedback
  nFeedback,          \* clicks on feedback buttons so far
  auth_token,         \* localStorage["auth_token"] (<<>> when absent)
  isReady,            \* AuthProvider: useState(false)
  isAuthenticated,    \* AuthProvider: useState(false)
  userId,             \* AuthProvider: useState<number | undefined> (<<>> when undefined)
  email,              \* AuthProvider: useState<string | undefined> (<<>> when undefined)
  authPc,             \* where the AuthProvider's mount effect stands
  nAuth               \* logins, registrations, logouts and reloads so far

vars == <<viewState, messages, currentMessage, isLoading, currentSession, sessions,
          error, sidebarOpen, active_session_id, session_id, bootPc, calls,
          srvSessions, srvHistory, now, nClicks, lastCall, bubbles, nFeedback,
          auth_token, isReady, isAuthenticated, userId, email, authPc, nAuth>>

srvVars == <<srvSessions, srvHistory>>

\* the AuthProvider's state and the stored credential
authVars == <<auth_token, isReady, isAuthenticated, userId, email, authPc, nAuth>>

\* the state of the message bubbles
bubbleVars == <<bubbles, nFeedback>>

Null == [null |-> TRUE]     \* currentSession === null

\* ---------------------------------------------------------------- values
Session(id, title, mc, amc) ==
  [id |-> id, title |-> title, message_count |-> mc, assistant_message_count |-> amc]

\* `sess` is not a field of the program's turn: it records the session the turn
\* was fetched for or sent to.
Turn(id, role, content, error_type, sess) ==
  [id |-> id, role |-> role, content |-> content, error_type |-> error_type,
   answer_type |-> "", sess |-> sess]

\* ChatResponse.answer_type; one value stands for the three, all of them truthy
AnswerTypes == {"grounded"}

\* the assistant turn sendMessage builds from a response
AnswerTurn(id, content, answer_type, sess) ==
  [Turn(id, "assistant", content, "", sess) EXCEPT !.answer_type = answer_type]

FallbackText ==
  <<"S","o","r","r","y",","," ","I"," ","e","n","c","o","u","n","t","e","r","e","d"," ",
    "a","n"," ","e","r","r","o","r","."," ","P","l","e","a","s","e"," ","t","r","y"," ",
    "a","g","a","i","n",".">>

\* What the user may type: nothing, blanks, a message.
Texts == { <<>>, <<" ">>, <<"h","i">> }

\* What a failed call may carry: err.response.data.detail and err.message
\* ("" when absent).
Errs == { [detail |-> "Service unavailable", message |-> "Request failed with status code 503"],
          [detail |-> "", message |-> ""] }

\* err?.response?.data?.detail || err?.message, without the fallback text
ErrorText_NoFallback(err, fallback) == IF err.detail # "" THEN err.detail ELSE err.message

\* err?.response?.data?.detail || err?.message || fallback
ErrorText(err, fallback) ==
  IF err.detail # "" THEN err.detail
  ELSE IF err.message # "" THEN err.message
  ELSE fallback

\* ------------------------------------------------------------- the service
Answer == <<"o","k">>

SrvNextMessageId ==
  LET RECURSIVE Total(_)
      Total(n) == IF n = 0 THEN 0 ELSE Len(srvHistory[n]) + Total(n - 1)
  IN Total(Len(srvHistory)) + 1

SrvNextSessionId == Len(srvSessions) + 1

OldTitle == <<"O","l","d">>

\* A service that already holds two sessions, each with one exchange.
TwoSessions == << Session(1, OldTitle, 2, 1), Session(2, <<>>, 2, 1) >>
TwoHistories ==
  << << Turn(1, "user", <<"h","i">>, "", 1), Turn(2, "assistant", Answer, "", 1) >>,
     << Turn(3, "user", <<"y","o">>, "", 2), Turn(4, "assistant", Answer, "", 2) >> >>

\* --------------------------------------------------------- local storage
StoredToken == <<"session", ClockBase - 1, "k3x9">>
RandomSuffixes == {"q7m2"}

\* a token generated whether or not one is stored
withSessionId_Always(tok, t, r) == <<"session", t, r>>

\* `session_${Date.now()}_${Math.random()...}` when no token is stored
withSessionId(tok, t, r) == IF tok = <<>> THEN <<"session", t, r>> ELSE tok

\* loadActiveSessionId: <<n>> for the stored text read as a number, <<>> for null
loadActiveSessionId(raw) == IF raw = <<>> THEN <<>> ELSE <<DecimalValue(raw)>>

\* saveActiveSessionId
saveActiveSessionId(id) == String(id)

\* ------------------------------------------------------------------ calls
NoCalls == EmptyBag
Issue(c) == calls (+) SetToBag({c})
Settle(c) == calls (-) SetToBag({c})
InFlight == BagToSet(calls)

\* the request interceptor: the headers of a request issued while `tok` is the
\* stored session_id and `cred` the stored auth_token (<<>> for a header not set)
Interceptor_NoBearer(tok, cred) == [xSessionId |-> tok, authorization |-> <<>>]

Interceptor(tok, cred) ==
  [xSessionId |-> tok,
   authorization |-> IF cred # <<>> THEN <<"Bearer">> \o cred ELSE <<>>]

\* a gateway call as it leaves through the axios instance
Request(c, tok, cred) == c @@ [headers |-> Interceptor(tok, cred)]

Call(op, flow, sid) == [op |-> op, flow |-> flow, sid |-> sid]
SendCall(sid, text, tmp) ==
  [op |-> "sendMessage", flow |-> "send", sid |-> sid, message |-> text, tempUserId |-> tmp]
\* `booted` is not part of the call: it records whether boot had finished when
\* selectSession issued the fetch.
SwitchCall(sid, booted) ==
  [op |-> "getChatHistory", flow |-> "select", sid |-> sid, booted |-> booted]
NewCall(cur) == [op |-> "createSession", flow |-> "new", sid |-> 0, closure |-> cur]

\* lastCall: the step taken last. `ok` tells a handler that went past its early
\* return, or a continuation whose call succeeded.
Did(op, sid, ok) == [op |-> op, sid |-> sid, ok |-> ok]
DidSend(sid, ok, text) == [op |-> "sendMessage", sid |-> sid, ok |-> ok, text |-> text]

\* --------------------------------------------------------- message bubbles
\* messages.map((m) => <MessageBubble key={m.id} .../>): one bubble per key
Keys(msgs) == {msgs[i].id : i \in 1..Len(msgs)}

\* useState(message.user_feedback ?? null), useState(false); no turn the client
\* holds carries user_feedback. <<>> stands for null.
NewBubble == [feedback |-> <<>>, submittingFeedback |-> FALSE]

NoBubbles == [k \in {} |-> NewBubble]

\* Rendering `msgs`: a bubble whose key is still present keeps its state, a
\* new key mounts a new bubble, a key that is gone unmounts its bubble.
Render(prev, msgs) ==
  [k \in Keys(msgs) |-> IF k \in DOMAIN prev THEN prev[k] ELSE NewBubble]

IsFeedback(c) == c.op = "submitFeedback"

\* The calls in flight once `msgs` is rendered: a submitFeedback call whose
\* bubble is unmounted stays in flight, and its continuation will find no
\* component to update.
Unmount(pending, msgs) ==
  LET S == BagToSet(pending)
      after(c) == IF IsFeedback(c) /\ c.sid \notin Keys(msgs)
                  THEN [c EXCEPT !.mounted = FALSE] ELSE c
      RECURSIVE Sum(_, _)
      Sum(T, x) == IF T = {} THEN 0
                   ELSE LET c == CHOOSE y \in T : TRUE
                        IN (IF after(c) = x THEN pending[c] ELSE 0) + Sum(T \ {c}, x)
  IN [x \in {after(c) : c \in S} |-> Sum(S, x)]

\* ------------------------------------------------------------------- Init
Profiles ==
  { [srv |-> <<>>, hist |-> <<>>, active |-> <<>>, token |-> <<>>, auth |-> <<>>],
    [srv |-> TwoSessions, hist |-> TwoHistories, active |-> String(2), token |-> StoredToken,
     auth |-> <<>>],
    [srv |-> TwoSessions, hist |-> TwoHistories, active |-> String(9), token |-> StoredToken,
     auth |-> <<>>] }

InitWith(profiles) ==
  /\ viewState = "booting"
  /\ messages = <<>>
  /\ currentMessage = <<>>
  /\ isLoading = FALSE
  /\ currentSession = Null
  /\ sessions = <<>>
  /\ error = ""
  /\ sidebarOpen = FALSE
  /\ bootPc = "mount"
  /\ calls = NoCalls
  /\ now = ClockBase
  /\ nClicks = 0
  /\ lastCall = Did("mount", 0, TRUE)
  /\ bubbles = NoBubbles
  /\ nFeedback = 0
  /\ isReady = FALSE
  /\ isAuthenticated = FALSE
  /\ userId = <<>>
  /\ email = <<>>
  /\ authPc = "mount"
  /\ nAuth = 0
  /\ \E p \in profiles :
       /\ srvSessions = p.srv
       /\ srvHistory = p.hist
       /\ active_session_id = p.active
       /\ session_id = p.token
       /\ auth_token = p.auth

Init == InitWith(Profiles)

\* The clock never runs backwards; a reading is any value from `now` on.
Readings == now..(ClockBase + MaxClock)

\* A user action, counted against the bound.
Click == nClicks < MaxClicks /\ nClicks' = nClicks + 1

\* ------------------------------------------------------------------- boot
BootCall == CHOOSE c \in InFlight : c.flow = "boot"
BootWaits(op) == \E c \in InFlight : c.flow = "boot" /\ c.op = op

\* useEffect body up to `await chatApi.listSessions()`
BootStart ==
  /\ bootPc = "mount"
  /\ viewState' = "booting"
  /\ \E t \in Readings, r \in RandomSuffixes :
       /\ session_id' = withSessionId(session_id, t, r)
       /\ now' = IF session_id = <<>> THEN t ELSE now
  /\ calls' = Issue(Request(Call("listSessions", "boot", 0), session_id', auth_token))
  /\ bootPc' = "listSessions"
  /\ lastCall' = Did("boot", 0, TRUE)
  /\ UNCHANGED <<messages, currentMessage, isLoading, currentSession, sessions, error,
                 sidebarOpen, active_session_id, srvVars, nClicks, bubbleVars, authVars>>

\* list.find((s) => s.id === preferred) ?? null, tried only when preferred is truthy
FindPreferred(list, preferred) ==
  IF preferred # <<>> /\ preferred[1] # 0 /\ \E i \in 1..Len(list) : list[i].id = preferred[1]
  THEN list[CHOOSE i \in 1..Len(list) :
              list[i].id = preferred[1] /\ \A j \in 1..(i-1) : list[j].id # preferred[1]]
  ELSE Null

\* the session boot selects from a list, Null when it has to create one
BootSelect(list, preferred) ==
  IF FindPreferred(list, preferred) # Null THEN FindPreferred(list, preferred)
  ELSE IF Len(list) > 0 THEN list[1]
  ELSE Null

\* continuation of `await chatApi.listSessions()`, the call having succeeded
BootListOk ==
  /\ bootPc = "listSessions" /\ BootWaits("listSessions")
  /\ LET list     == srvSessions
         selected == BootSelect(list, loadActiveSessionId(active_session_id))
     IN /\ sessions' = list
        /\ IF selected # Null
           THEN /\ currentSession' = selected
                /\ active_session_id' = saveActiveSessionId(selected.id)
                /\ calls' = Settle(BootCall) (+) SetToBag({Request(Call("getChatHistory", "boot", selected.id),
                                                session_id, auth_token)})
                /\ bootPc' = "getChatHistory"
                /\ lastCall' = Did("boot.listSessions", selected.id, TRUE)
           ELSE /\ calls' = Settle(BootCall) (+) SetToBag({Request(Call("createSession", "boot", 0),
                                                session_id, auth_token)})
                /\ bootPc' = "createSession"
                /\ lastCall' = Did("boot.listSessions", 0, TRUE)
                /\ UNCHANGED <<currentSession, active_session_id>>
  /\ UNCHANGED <<viewState, messages, currentMessage, isLoading, error, sidebarOpen,
                 session_id, srvVars, now, nClicks, bubbleVars, authVars>>

\* continuation of `await chatApi.createSession()` in boot, the call having succeeded
BootCreateOk ==
  /\ bootPc = "createSession" /\ BootWaits("createSession")
  /\ LET selected == Session(SrvNextSessionId, <<>>, 0, 0)
     IN /\ srvSessions' = <<selected>> \o srvSessions
        /\ srvHistory' = Append(srvHistory, <<>>)
        /\ sessions' = <<selected>>
        /\ currentSession' = selected
        /\ active_session_id' = saveActiveSessionId(selected.id)
        /\ calls' = Settle(BootCall) (+) SetToBag({Request(Call("getChatHistory", "boot", selected.id),
                                                session_id, auth_token)})
        /\ lastCall' = Did("boot.createSession", selected.id, TRUE)
  /\ bootPc' = "getChatHistory"
  /\ UNCHANGED <<viewState, messages, currentMessage, isLoading, error, sidebarOpen,
                 session_id, now, nClicks, bubbleVars, authVars>>

\* continuation of `await chatApi.getChatHistory(selected.id)` in boot
BootHistoryOk ==
  /\ bootPc = "getChatHistory" /\ BootWaits("getChatHistory")
  /\ messages' = srvHistory[BootCall.sid]
  /\ bubbles' = Render(bubbles, messages')
  /\ viewState' = "ready"
  /\ calls' = Unmount(Settle(BootCall), messages')
  /\ bootPc' = "done"
  /\ lastCall' = Did("boot.getChatHistory", BootCall.sid, TRUE)
  /\ UNCHANGED <<currentMessage, isLoading, currentSession, sessions, error, sidebarOpen,
                 active_session_id, session_id, srvVars, now, nClicks, nFeedback, authVars>>

BootStep(op) ==
  CASE op = "listSessions"   -> "boot.listSessions"
    [] op = "createSession"  -> "boot.createSession"
    [] op = "getChatHistory" -> "boot.getChatHistory"

\* what boot's catch block leaves in the transcript and in viewState
BootCatchMessages(prev) == prev
BootCatchView == "ready"

\* boot's catch block: any of its three calls rejected
BootFail ==
  /\ bootPc \in {"listSessions", "createSession", "getChatHistory"}
  /\ \E c \in InFlight : c.flow = "boot"
  /\ \E err \in Errs : error' = ErrorText(err, "Failed to load sessions")
  /\ messages' = BootCatchMessages(messages)
  /\ bubbles' = Render(bubbles, messages')
  /\ viewState' = BootCatchView
  /\ calls' = Unmount(Settle(BootCall), messages')
  /\ bootPc' = "done"
  /\ lastCall' = Did(BootStep(BootCall.op), BootCall.sid, FALSE)
  /\ UNCHANGED <<currentMessage, isLoading, currentSession, sessions, sidebarOpen,
                 active_session_id, session_id, srvVars, now, nClicks, nFeedback, authVars>>

\* ---------------------------------------------------------- selectSession
\* selectSession without its early return
SameSession_Never(cur, session) == FALSE

\* currentSession?.id === session.id
SameSession(cur, session) == cur # Null /\ cur.id = session.id

\* selectSession up to `await chatApi.getChatHistory(session.id)`; `cur` is the
\* currentSession its closure holds, `pending` the calls in flight besides its own
PersistedOnSelect_Kept(stored, id) == stored

\* saveActiveSessionId(session.id) in selectSession
PersistedOnSelect(stored, id) == saveActiveSessionId(id)

selectSession(cur, session, pending) ==
  IF SameSession(cur, session)
  THEN /\ sidebarOpen' = FALSE
       /\ calls' = pending
       /\ UNCHANGED <<viewState, error, currentSession, active_session_id>>
  ELSE /\ sidebarOpen' = FALSE
       /\ viewState' = "switching"
       /\ error' = ""
       /\ currentSession' = session
       /\ active_session_id' = PersistedOnSelect(active_session_id, session.id)
       /\ calls' = pending (+) SetToBag({Request(SwitchCall(session.id, bootPc = "done"),
                                         session_id, auth_token)})

\* the user clicks a session of the sidebar
ClickSession ==
  /\ bootPc # "mount"
  /\ Click
  /\ \E i \in 1..Len(sessions) :
       /\ selectSession(currentSession, sessions[i], calls)
       /\ lastCall' = Did("selectSession", sessions[i].id,
                          ~SameSession(currentSession, sessions[i]))
  /\ UNCHANGED <<messages, currentMessage, isLoading, sessions, session_id, bootPc,
                 srvVars, now, bubbleVars, authVars>>

IsSwitchFetch(c) == c.op = "getChatHistory" /\ c.flow = "select"

\* continuation of `await chatApi.getChatHistory(session.id)`, the call having succeeded
SwitchHistoryOk ==
  \E c \in InFlight :
    /\ IsSwitchFetch(c)
    /\ messages' = srvHistory[c.sid]
    /\ bubbles' = Render(bubbles, messages')
    /\ viewState' = "ready"
    /\ calls' = Unmount(Settle(c), messages')
    /\ lastCall' = Did("select.getChatHistory", c.sid, TRUE)
    /\ UNCHANGED <<currentMessage, isLoading, currentSession, sessions, error, sidebarOpen,
                   active_session_id, session_id, bootPc, srvVars, now, nClicks, nFeedback,
                   authVars>>

\* selectSession's catch block without setMessages([]) / without setViewState("ready")
SwitchCatchMessages_Kept(prev) == prev
SwitchCatchView_Unset == viewState

\* what selectSession's catch block leaves in the transcript and in viewState
SwitchCatchMessages(prev) == <<>>
SwitchCatchView == "ready"

\* selectSession's catch block
SwitchHistoryFail ==
  \E c \in InFlight, err \in Errs :
    /\ IsSwitchFetch(c)
    /\ error' = ErrorText(err, "Failed to load chat history")
    /\ messages' = SwitchCatchMessages(messages)
    /\ bubbles' = Render(bubbles, messages')
    /\ viewState' = SwitchCatchView
    /\ calls' = Unmount(Settle(c), messages')
    /\ lastCall' = Did("select.getChatHistory", c.sid, FALSE)
    /\ UNCHANGED <<currentMessage, isLoading, currentSession, sessions, sidebarOpen,
                   active_session_id, session_id, bootPc, srvVars, now, nClicks, nFeedback,
                   authVars>>

\* ------------------------------------------------------- createNewSession
\* createNewSession up to `await chatApi.createSession()`
ClickNewSession ==
  /\ bootPc # "mount"
  /\ Click
  /\ error' = ""
  /\ \E t \in Readings, r \in RandomSuffixes :
       /\ session_id' = withSessionId(session_id, t, r)
       /\ now' = IF session_id = <<>> THEN t ELSE now
  /\ calls' = Issue(Request(NewCall(currentSession), session_id', auth_token))
  /\ lastCall' = Did("createNewSession", 0, TRUE)
  /\ UNCHANGED <<viewState, messages, currentMessage, isLoading, currentSession, sessions,
                 sidebarOpen, active_session_id, bootPc, srvVars, bubbleVars, authVars>>

IsNewCreate(c) == c.op = "createSession" /\ c.flow = "new"

Prepended_AtEnd(prev, s) == Append(prev, s)

\* setSessions((prev) => [s, ...prev])
Prepended(prev, s) == <<s>> \o prev

\* continuation of `await chatApi.createSession()`: prepend, then selectSession(s)
\* The service handles POST /sessions at some moment between the request and
\* the arrival of its response; a call it has handled carries the response.
Served(c) == "resp" \in DOMAIN c

\* the service creates the session that createNewSession asked for
ServeCreate ==
  \E c \in InFlight :
    /\ IsNewCreate(c) /\ ~Served(c)
    /\ LET s == Session(SrvNextSessionId, <<>>, 0, 0)
       IN /\ srvSessions' = <<s>> \o srvSessions
          /\ srvHistory' = Append(srvHistory, <<>>)
          /\ calls' = Settle(c) (+) SetToBag({c @@ [resp |-> s]})
          /\ lastCall' = Did("serve.createSession", s.id, TRUE)
    /\ UNCHANGED <<viewState, messages, currentMessage, isLoading, currentSession, sessions,
                   error, sidebarOpen, active_session_id, session_id, bootPc, now, nClicks,
                   bubbleVars, authVars>>

NewCreateOk ==
  \E c \in InFlight :
    /\ IsNewCreate(c)
    /\ LET s == IF Served(c) THEN c.resp ELSE Session(SrvNextSessionId, <<>>, 0, 0)
       IN /\ srvSessions' = IF Served(c) THEN srvSessions ELSE <<s>> \o srvSessions
          /\ srvHistory' = IF Served(c) THEN srvHistory ELSE Append(srvHistory, <<>>)
          /\ sessions' = Prepended(sessions, s)
          /\ selectSession(c.closure, s, Settle(c))
          /\ lastCall' = Did("new.createSession", s.id, TRUE)
    /\ UNCHANGED <<messages, currentMessage, isLoading, session_id, bootPc, now, nClicks,
                   bubbleVars, authVars>>

\* createNewSession's catch block
NewCreateFail ==
  \E c \in InFlight, err \in Errs :
    /\ IsNewCreate(c)
    /\ error' = ErrorText(err, "Failed to create session")
    /\ calls' = Settle(c)
    /\ lastCall' = Did("new.createSession", 0, FALSE)
    /\ UNCHANGED <<viewState, messages, currentMessage, isLoading, currentSession, sessions,
                   sidebarOpen, active_session_id, session_id, bootPc, srvVars, now, nClicks,
                   bubbleVars, authVars>>

\* ------------------------------------------------------------ sendMessage
\* the early return testing !currentMessage instead of !currentMessage.trim()
SendRejected_Untrimmed(text, cur, loading) == text = <<>> \/ cur = Null \/ loading

\* the early return: !currentMessage.trim() || !currentSession || isLoading
SendRejected(text, cur, loading) == trim(text) = <<>> \/ cur = Null \/ loading

IsPlaceholderTitle_Always(title) == TRUE

\* !currentSession.title || currentSession.title.toLowerCase() === "new chat"
IsPlaceholderTitle(title) == title = <<>> \/ toLowerCase(title) = toLowerCase(NewChat)

\* prev.map((s) => s.id === id ? { ...s, title } : s)
Retitle(list, id, title) ==
  [i \in 1..Len(list) |-> IF list[i].id = id THEN [list[i] EXCEPT !.title = title] ELSE list[i]]

\* prev.map((s) => s.id === id ? { ...s, message_count + 2, assistant_message_count + 1 } : s)
Recount(list, id) ==
  [i \in 1..Len(list) |->
     IF list[i].id = id
     THEN [list[i] EXCEPT !.message_count = @ + 2, !.assistant_message_count = @ + 1]
     ELSE list[i]]

\* an accepted send without setIsLoading(true)
LoadingWhileSending_Unset == isLoading

\* setIsLoading(...) of an accepted send, before the call
LoadingWhileSending == TRUE

\* sendMessage up to `await chatApi.sendMessage(toSend, currentSession.id)`
\* The input box is disabled while isLoading, so its text can change only otherwise.
Typable == IF isLoading THEN {currentMessage} ELSE Texts

WithUserTurn_Deferred(prev, userTurn) == prev

WithUserTurn_AtFront(prev, userTurn) == <<userTurn>> \o prev

\* setMessages((prev) => [...prev, userTurn])
WithUserTurn(prev, userTurn) == Append(prev, userTurn)

\* sendMessage with `text` in the input box (onChange: setCurrentMessage(text))
sendMessage(text) ==
  IF SendRejected(text, currentSession, isLoading)
  THEN /\ currentMessage' = text
       /\ lastCall' = DidSend(0, FALSE, text)
       /\ UNCHANGED <<messages, isLoading, currentSession, sessions, error, calls, now,
                      bubbles>>
  ELSE /\ \E tempUserId \in Readings :
            /\ now' = tempUserId
            /\ messages' = WithUserTurn(messages,
                                        Turn(tempUserId, "user", text, "", currentSession.id))
            /\ bubbles' = Render(bubbles, messages')
            /\ calls' = Issue(Request(SendCall(currentSession.id, text, tempUserId),
                                      session_id, auth_token))
       /\ IF IsPlaceholderTitle(currentSession.title)
          THEN /\ currentSession' = [currentSession EXCEPT !.title = makeTitleCandidate(text)]
               /\ sessions' = Retitle(sessions, currentSession.id, makeTitleCandidate(text))
          ELSE UNCHANGED <<currentSession, sessions>>
       /\ currentMessage' = <<>>
       /\ isLoading' = LoadingWhileSending
       /\ error' = ""
       /\ lastCall' = DidSend(currentSession.id, TRUE, text)

\* the user fills the input box with one of `texts` and presses Enter or the
\* send button
TypeAndSend(texts) ==
  /\ bootPc # "mount"
  /\ Click
  /\ \E text \in texts : sendMessage(text)
  /\ UNCHANGED <<viewState, sidebarOpen, active_session_id, session_id, bootPc, srvVars,
                 nFeedback, authVars>>

ClickSend == TypeAndSend(Typable)

IsSend(c) == c.op = "sendMessage"

\* sendMessage without its finally block
LoadingAfterSend_Kept == isLoading

\* finally { setIsLoading(...) }
LoadingAfterSend == FALSE

\* continuation of `await chatApi.sendMessage(...)`, the call having succeeded;
\* the service stores the exchange and may or may not return message_id
SendOk ==
  \E c \in InFlight, withId \in BOOLEAN, answer_type \in AnswerTypes :
    /\ IsSend(c)
    /\ LET m          == SrvNextMessageId
           message_id == IF withId THEN m + 1 ELSE 0
           id         == IF message_id # 0 THEN message_id ELSE c.tempUserId + 1
       IN /\ srvHistory' = [srvHistory EXCEPT ![c.sid] =
                              @ \o << Turn(m, "user", c.message, "", c.sid),
                                      Turn(m + 1, "assistant", Answer, "", c.sid) >>]
          /\ srvSessions' = Recount(srvSessions, c.sid)
          /\ messages' = Append(messages, AnswerTurn(id, Answer, answer_type, c.sid))
          /\ bubbles' = Render(bubbles, messages')
          /\ sessions' = Recount(sessions, c.sid)
    /\ isLoading' = LoadingAfterSend
    /\ calls' = Settle(c)
    /\ lastCall' = Did("send.sendMessage", c.sid, TRUE)
    /\ UNCHANGED <<viewState, currentMessage, currentSession, error, sidebarOpen,
                   active_session_id, session_id, bootPc, now, nClicks, nFeedback, authVars>>

\* sendMessage's catch and finally blocks
SendCatchRequests_Resend(c) == SetToBag({c})

\* requests the catch block of sendMessage issues: none
SendCatchRequests(c) == EmptyBag

SendFail ==
  \E c \in InFlight, err \in Errs, t \in Readings :
    /\ IsSend(c)
    /\ error' = ErrorText(err, "Failed to send message. Please try again.")
    /\ now' = t
    /\ messages' = Append(messages, Turn(t + 1, "assistant", FallbackText, "frontend_error", c.sid))
    /\ bubbles' = Render(bubbles, messages')
    /\ isLoading' = LoadingAfterSend
    /\ calls' = Settle(c) (+) SendCatchRequests(c)
    /\ lastCall' = Did("send.sendMessage", c.sid, FALSE)
    /\ UNCHANGED <<viewState, currentMessage, currentSession, sessions, sidebarOpen,
                   active_session_id, session_id, bootPc, srvVars, nClicks, nFeedback, authVars>>

\* --------------------------------------------------------- handleFeedback
\* handleFeedback(value: 1 | -1 | 0)
FeedbackValues == {1, -1, 0}

\* !isUser && hasRAGData: the bubble renders its feedback buttons (sources come
\* with answer_type, so answer_type decides)
HasFeedbackButtons(m) == m.role # "user" /\ m.answer_type # ""

\* the early return without `submittingFeedback ||`
FeedbackRejected_NoFlag(submitting, m) == m.id = 0 \/ m.role = "user"

\* the early return: submittingFeedback || !message.id || isUser
FeedbackRejected(submitting, m) == submitting \/ m.id = 0 \/ m.role = "user"

\* setFeedback(value) instead of setFeedback(value === 0 ? null : value)
FeedbackShown_Raw(value) == <<value>>

\* setFeedback(value === 0 ? null : value)
FeedbackShown(value) == IF value = 0 THEN <<>> ELSE <<value>>

FeedbackCall(id, value) ==
  [op |-> "submitFeedback", flow |-> "feedback", sid |-> id, value |-> value, mounted |-> TRUE]

DidFeedback(m, value, ok) ==
  [op |-> "handleFeedback", sid |-> m.id, ok |-> ok, value |-> value, role |-> m.role]

\* handleFeedback up to `await chatApi.submitFeedback(message.id, value)`, on a
\* bubble that renders the buttons. (The buttons' `disabled` attribute is not
\* relied on: the handler's own early return decides.)
ClickFeedback ==
  /\ nFeedback < MaxFeedback
  /\ nFeedback' = nFeedback + 1
  /\ \E i \in 1..Len(messages), value \in FeedbackValues :
       LET m == messages[i]
       IN /\ HasFeedbackButtons(m)
          /\ IF FeedbackRejected(bubbles[m.id].submittingFeedback, m)
             THEN /\ lastCall' = DidFeedback(m, value, FALSE)
                  /\ UNCHANGED <<bubbles, calls>>
             ELSE /\ bubbles' = [bubbles EXCEPT ![m.id].submittingFeedback = TRUE]
                  /\ calls' = Issue(Request(FeedbackCall(m.id, value), session_id, auth_token))
                  /\ lastCall' = DidFeedback(m, value, TRUE)
  /\ UNCHANGED <<viewState, messages, currentMessage, isLoading, currentSession, sessions,
                 error, sidebarOpen, active_session_id, session_id, bootPc, srvVars, now,
                 nClicks, authVars>>

\* finally { setSubmittingFeedback(...) }
SubmittingAfterFeedback(prev) == FALSE

\* continuation of `await chatApi.submitFeedback(...)`, the call having succeeded
FeedbackOk ==
  \E c \in InFlight :
    /\ IsFeedback(c)
    /\ bubbles' = IF c.mounted
                  THEN [bubbles EXCEPT ![c.sid] =
                          [feedback |-> FeedbackShown(c.value),
                           submittingFeedback |-> SubmittingAfterFeedback(@.submittingFeedback)]]
                  ELSE bubbles
    /\ calls' = Settle(c)
    /\ lastCall' = [op |-> "feedback.submitFeedback", sid |-> c.sid, ok |-> TRUE,
                    value |-> c.value, mounted |-> c.mounted]
    /\ UNCHANGED <<viewState, messages, currentMessage, isLoading, currentSession, sessions,
                   error, sidebarOpen, active_session_id, session_id, bootPc, srvVars, now,
                   nClicks, nFeedback, authVars>>

\* handleFeedback's catch and finally blocks
FeedbackFail ==
  \E c \in InFlight :
    /\ IsFeedback(c)
    /\ bubbles' = IF c.mounted
                  THEN [bubbles EXCEPT ![c.sid].submittingFeedback = SubmittingAfterFeedback(@)]
                  ELSE bubbles
    /\ calls' = Settle(c)
    /\ lastCall' = [op |-> "feedback.submitFeedback", sid |-> c.sid, ok |-> FALSE,
                    value |-> c.value, mounted |-> c.mounted]
    /\ UNCHANGED <<viewState, messages, currentMessage, isLoading, currentSession, sessions,
                   error, sidebarOpen, active_session_id, session_id, bootPc, srvVars, now,
                   nClicks, nFeedback, authVars>>

\* ----------------------------------------------------------- AuthProvider
\* What the service returns for a login or a registration, and for me().
AccessToken == <<"jwt">>
Me == [user_id |-> 7, email |-> <<"a","@","b">>]
\* AuthResponse.session_id of a registration: absent, or the id the service binds
ServerSessionIds == { <<>>, <<"session", 0, "srv">> }

\* a page event, counted against the bound; the mount effects have run
AuthClick == nAuth < MaxAuth /\ nAuth' = nAuth + 1 /\ bootPc # "mount" /\ authPc # "mount"

\* what the conversation engine holds
chatVars == <<viewState, messages, currentMessage, isLoading, currentSession, sessions,
              error, sidebarOpen, active_session_id, bootPc, nClicks, bubbleVars>>

\* the AuthProvider's mount effect up to `await authApi.me()`
AuthStart ==
  /\ authPc = "mount"
  /\ \E t \in Readings, r \in RandomSuffixes :
       /\ session_id' = withSessionId(session_id, t, r)
       /\ now' = IF session_id = <<>> THEN t ELSE now
  /\ IF auth_token = <<>>
     THEN /\ isReady' = TRUE
          /\ authPc' = "done"
          /\ UNCHANGED calls
     ELSE /\ calls' = Issue(Request(Call("me", "authBoot", 0), session_id', auth_token))
          /\ authPc' = "me"
          /\ UNCHANGED isReady
  /\ lastCall' = Did("auth", 0, auth_token # <<>>)
  /\ UNCHANGED <<chatVars, srvVars, auth_token, isAuthenticated, userId, email, nAuth>>

IsBootMe(c) == c.op = "me" /\ c.flow = "authBoot"

\* the mount effect after `await authApi.me()`: the token is valid
BootMeOk ==
  \E c \in InFlight :
    /\ IsBootMe(c)
    /\ isAuthenticated' = TRUE
    /\ userId' = <<Me.user_id>>
    /\ email' = <<Me.email>>
    /\ isReady' = TRUE
    /\ authPc' = "done"
    /\ calls' = Settle(c)
    /\ lastCall' = Did("auth.me", 0, TRUE)
    /\ UNCHANGED <<chatVars, srvVars, session_id, now, auth_token, nAuth>>

\* the catch block without localStorage.removeItem("auth_token")
RejectedCredential_Kept == auth_token

\* localStorage.removeItem("auth_token") of the mount effect's catch block
RejectedCredential == <<>>

\* the mount effect's catch and finally blocks: the token is invalid
BootMeFail ==
  \E c \in InFlight :
    /\ IsBootMe(c)
    /\ auth_token' = RejectedCredential
    /\ isAuthenticated' = FALSE
    /\ userId' = <<>>
    /\ email' = <<>>
    /\ isReady' = TRUE
    /\ authPc' = "done"
    /\ calls' = Settle(c)
    /\ lastCall' = Did("auth.me", 0, FALSE)
    /\ UNCHANGED <<chatVars, srvVars, session_id, now, nAuth>>

\* login up to `await chatApi.login(email, password)`
Login ==
  /\ AuthClick
  /\ calls' = Issue(Request(Call("login", "login", 0), session_id, auth_token))
  /\ lastCall' = Did("login", 0, TRUE)
  /\ UNCHANGED <<chatVars, srvVars, session_id, now, auth_token, isReady, isAuthenticated,
                 userId, email, authPc>>

\* register up to `await chatApi.register(email, password)`
Register ==
  /\ AuthClick
  /\ \E t \in Readings, r \in RandomSuffixes :
       /\ session_id' = withSessionId(session_id, t, r)
       /\ now' = IF session_id = <<>> THEN t ELSE now
  /\ calls' = Issue(Request(Call("register", "register", 0), session_id', auth_token))
  /\ lastCall' = Did("register", 0, TRUE)
  /\ UNCHANGED <<chatVars, srvVars, auth_token, isReady, isAuthenticated, userId, email,
                 authPc>>

IsSignIn(c) == c.op \in {"login", "register"}

\* res.session_id of a login is not read; a registration stores it when present
SessionIdAfter_Kept(c, tok, sid) == tok

SessionIdAfter(c, tok, sid) == IF c.op = "register" /\ sid # <<>> THEN sid ELSE tok

\* login / register after their first await: store the credential, call me()
SignInOk ==
  \E c \in InFlight, sid \in ServerSessionIds :
    /\ IsSignIn(c)
    /\ auth_token' = AccessToken
    /\ session_id' = SessionIdAfter(c, session_id, sid)
    /\ calls' = Settle(c) (+) SetToBag({Request(Call("me", c.flow, 0), session_id', auth_token')})
    /\ lastCall' = [op |-> IF c.op = "login" THEN "login.login" ELSE "register.register",
                     sid |-> 0, ok |-> TRUE,
                     returned |-> IF c.op = "register" THEN sid ELSE <<>>]
    /\ UNCHANGED <<chatVars, srvVars, now, isReady, isAuthenticated, userId, email, authPc,
                   nAuth>>

\* login / register rejected by the service: the promise rejects to the caller
SignInFail ==
  \E c \in InFlight :
    /\ IsSignIn(c)
    /\ calls' = Settle(c)
    /\ lastCall' = Did(IF c.op = "login" THEN "login.login" ELSE "register.register", 0, FALSE)
    /\ UNCHANGED <<chatVars, srvVars, session_id, now, authVars>>

IsSignInMe(c) == c.op = "me" /\ c.flow \in {"login", "register"}

\* login / register after `await authApi.me()`
SignInMeOk ==
  \E c \in InFlight :
    /\ IsSignInMe(c)
    /\ isAuthenticated' = TRUE
    /\ userId' = <<Me.user_id>>
    /\ email' = <<Me.email>>
    /\ calls' = Settle(c)
    /\ lastCall' = Did("signin.me", 0, TRUE)
    /\ UNCHANGED <<chatVars, srvVars, session_id, now, auth_token, isReady, authPc, nAuth>>

\* me() rejected after a login or a registration: the promise rejects to the caller
SignInMeFail ==
  \E c \in InFlight :
    /\ IsSignInMe(c)
    /\ calls' = Settle(c)
    /\ lastCall' = Did("signin.me", 0, FALSE)
    /\ UNCHANGED <<chatVars, srvVars, session_id, now, authVars>>

\* authApi.logout(): purely local, clears the credential
ClearedCredential == <<>>

\* logout without setIsAuthenticated(false)
LoggedOutFlag_Kept == isAuthenticated

\* setIsAuthenticated(...) of logout
LoggedOutFlag == FALSE

\* logout, from the sidebar button shown while isAuthenticated
Logout ==
  /\ AuthClick
  /\ isAuthenticated
  /\ auth_token' = ClearedCredential
  /\ isAuthenticated' = LoggedOutFlag
  /\ userId' = <<>>
  /\ email' = <<>>
  /\ lastCall' = Did("logout", 0, TRUE)
  /\ UNCHANGED <<chatVars, srvVars, calls, session_id, now, isReady, authPc>>

\* The page is loaded again: components start from their initial state, the
\* calls of the old page are dropped, local storage and the service stay.
Reload ==
  /\ AuthClick
  /\ viewState' = "booting"
  /\ messages' = <<>>
  /\ currentMessage' = <<>>
  /\ isLoading' = FALSE
  /\ currentSession' = Null
  /\ sessions' = <<>>
  /\ error' = ""
  /\ sidebarOpen' = FALSE
  /\ bootPc' = "mount"
  /\ calls' = NoCalls
  /\ bubbles' = NoBubbles
  /\ isReady' = FALSE
  /\ isAuthenticated' = FALSE
  /\ userId' = <<>>
  /\ email' = <<>>
  /\ authPc' = "mount"
  /\ lastCall' = Did("reload", 0, TRUE)
  /\ UNCHANGED <<active_session_id, session_id, auth_token, srvVars, now, nClicks, nFeedback>>

\* ------------------------------------------------------------------- Next
\* (The sidebar toggle changes sidebarOpen alone and is left out.)
UserAct == ClickSession \/ ClickNewSession \/ ClickSend

Settled ==
  \/ BootListOk \/ BootCreateOk \/ BootHistoryOk \/ BootFail
  \/ SwitchHistoryOk \/ SwitchHistoryFail
  \/ NewCreateOk \/ NewCreateFail
  \/ SendOk \/ SendFail

Next == BootStart \/ UserAct \/ Settled

Spec == Init /\ [][Next]_vars

\* Every gateway call settles, and the mount effect runs.
LiveSpec == Spec /\ WF_vars(BootStart) /\ WF_vars(Settled)

\* The conversation together with the feedback buttons of its bubbles.
FeedbackAct == ClickFeedback \/ FeedbackOk \/ FeedbackFail

FeedbackNext == Next \/ FeedbackAct

FeedbackSpec == Init /\ [][FeedbackNext]_vars

\* The identity store: the AuthProvider, the calls that create the anonymous
\* token, and reloads of the page.
AuthAct ==
  \/ AuthStart \/ BootMeOk \/ BootMeFail
  \/ Login \/ Register \/ SignInOk \/ SignInFail \/ SignInMeOk \/ SignInMeFail
  \/ Logout \/ Reload

IdentityNext == BootStart \/ ClickNewSession \/ AuthAct

IdentitySpec == Init /\ [][IdentityNext]_vars

\* The mount effect runs, and the me() call it makes settles.
IdentityLiveSpec ==
  IdentitySpec /\ WF_vars(AuthStart) /\ WF_vars(BootMeOk \/ BootMeFail)

\* The selection boot makes, over the lists the service can return and the
\* last-active ids a former visit can have persisted. Session ids are integers
\* the service assigns; the histories are not read by these steps.
MaxSessionId == 2
MaxListLen == 2

SessionIds == 0..MaxSessionId

RECURSIVE ListsOver(_, _)
ListsOver(ids, n) ==
  IF n = 0 THEN {<<>>}
  ELSE ListsOver(ids, n - 1)
       \cup UNION { {<<Session(i, <<>>, 0, 0)>> \o l :
                        l \in {m \in ListsOver(ids, n - 1) :
                                 \A k \in 1..Len(m) : m[k].id # i}} : i \in ids }

BootProfiles ==
  { [srv |-> l, hist |-> <<>>, active |-> a, token |-> t, auth |-> <<>>] :
      l \in ListsOver(SessionIds, MaxListLen),
      a \in {<<>>} \cup {String(i) : i \in 0..(MaxSessionId + 1)},
      t \in {<<>>, StoredToken} }

BootSelectNext == BootStart \/ BootListOk \/ BootCreateOk

BootSelectSpec == InitWith(BootProfiles) /\ [][BootSelectNext]_vars

\* Title inference: boot, then sends of messages longer than the title limit
\* and of one that reads as the placeholder.
\* the first message of property P4 of the specification and the title it states
P4Message ==
  <<" "," ","w","h","a","t"," ","a","r","e"," ","Y","O","U","R"," ",
    "t","r","a","n","s","f","e","r"," "," "," ","l","i","m","i","t",
    "s"," ","p","l","e","a","s","e"," ","h","e","l","p"," ","m","e",
    " ","u","n","d","e","r","s","t","a","n","d"," ","t","h","e"," ",
    "f","e","e","s"," ","i","n","v","o","l","v","e","d"," ","t","o",
    "d","a","y"," ","n","o","w"," "," ">>

P4Title ==
  <<"W","h","a","t"," ","a","r","e"," ","y","o","u","r"," ","t","r",
    "a","n","s","f","e","r"," ","l","i","m","i","t","s"," ","p","l",
    "e","a","s","e"," ","h","e","l","p"," ","m","e"," ","u","n","d",
    "e","r","s","t","a","n","d"," ","t","h","e">>

\* 70 letters without a space; 20 letters, a space, 50 letters
Letters(n) == [i \in 1..n |-> "a"]
FirstMessages ==
  {P4Message, Letters(70), Letters(20) \o <<" ">> \o Letters(50), <<"n","e","w"," "," ","c","h","a","t">>}

FirstSend == TypeAndSend(IF isLoading THEN {currentMessage} ELSE FirstMessages)

TitleNext ==
  BootStart \/ BootListOk \/ BootCreateOk \/ BootHistoryOk \/ FirstSend \/ SendOk \/ SendFail

TitleSpec == Init /\ [][TitleNext]_vars

\* Title inference over typed texts: after boot a text is typed into the input
\* box and the title is inferred from it as sendMessage does, here also for the
\* texts sendMessage rejects.
MaxPad == 2

WordLengths ==
  {0, 1, TitleMinCut - 1, TitleMinCut, TitleMinCut + 1, TitleMax - 1, TitleMax, TitleMax + 1}

\* g white-space characters, the second a tab
Pad(g) == [i \in 1..g |-> IF i = 2 THEN "\t" ELSE " "]

TitleInputs ==
  { Pad(l) \o first \o Letters(n1) \o Pad(g) \o Letters(n2) \o Pad(t) :
      l \in {0, MaxPad}, first \in {<<>>, <<"a">>, <<"Z">>, <<Eszett>>},
      n1 \in WordLengths, g \in 0..MaxPad, n2 \in WordLengths, t \in {0, MaxPad} }

\* onChange of the input box: setCurrentMessage(e.target.value)
TypeText ==
  /\ bootPc = "done" /\ currentSession # Null
  /\ lastCall.op \notin {"type", "makeTitleCandidate"}
  /\ \E text \in TitleInputs : currentMessage' = text
  /\ lastCall' = Did("type", currentSession.id, TRUE)
  /\ UNCHANGED <<viewState, messages, isLoading, currentSession, sessions, error, sidebarOpen,
                 active_session_id, session_id, bootPc, calls, srvVars, now, nClicks,
                 bubbleVars, authVars>>

\* const title = makeTitleCandidate(currentMessage), set on the current session
InferTitle ==
  /\ lastCall.op = "type"
  /\ currentSession' = [currentSession EXCEPT !.title = makeTitleCandidate(currentMessage)]
  /\ sessions' = Retitle(sessions, currentSession.id, makeTitleCandidate(currentMessage))
  /\ lastCall' = Did("makeTitleCandidate", currentSession.id, TRUE)
  /\ UNCHANGED <<viewState, messages, currentMessage, isLoading, error, sidebarOpen,
                 active_session_id, session_id, bootPc, calls, srvVars, now, nClicks,
                 bubbleVars, authVars>>

CandidateNext ==
  BootStart \/ BootListOk \/ BootCreateOk \/ BootHistoryOk \/ TypeText \/ InferTitle

CandidateSpec == Init /\ [][CandidateNext]_vars

\* The session list under boot and createNewSession, the service handling a
\* creation before its response arrives.
RegistryNext ==
  \/ BootStart \/ BootListOk \/ BootCreateOk \/ BootHistoryOk \/ BootFail
  \/ ClickNewSession \/ ServeCreate \/ NewCreateOk \/ NewCreateFail
  \/ SwitchHistoryOk \/ SwitchHistoryFail

RegistrySpec == Init /\ [][RegistryNext]_vars

\* ----------------------------------------------------------------- claims
SwitchFetchIn(b) == \E c \in BagToSet(b) : IsSwitchFetch(c)

SendsInFlight ==
  LET RECURSIVE Count(_)
      Count(S) == IF S = {} THEN 0
                  ELSE LET c == CHOOSE x \in S : TRUE
                       IN (IF IsSend(c) THEN CopiesIn(c, calls) ELSE 0) + Count(S \ {c})
  IN Count(InFlight)

TurnsAllOf(sid) == \A i \in 1..Len(messages) : messages[i].sess = sid

BootSteps == {"boot.listSessions", "boot.createSession", "boot.getChatHistory"}

\* C1: selectSession(A), then selectSession(B) before A's fetch settles (both
\* after boot has finished): once no switch fetch is left in flight, the
\* transcript is the history of the current session (the one selected last).
\* Stated on the step that settles the last switch fetch.
C1_LatestSelectionWins ==
  [][ \A c \in InFlight :
        ( /\ IsSwitchFetch(c) /\ c.booted
          /\ lastCall' = Did("select.getChatHistory", c.sid, TRUE)
          /\ calls' = Settle(c)
          /\ ~SwitchFetchIn(calls') )
        => ( /\ currentSession' # Null
             /\ messages' = srvHistory'[currentSession'.id] ) ]_vars

\* C2: when a send addressed to session X settles while the current session is
\* another session, the transcript is left as it is.
C2_StaleReplyDiscarded ==
  [][ \A c \in InFlight :
        ( /\ IsSend(c)
          /\ lastCall'.op = "send.sendMessage"
          /\ currentSession # Null /\ currentSession.id # c.sid )
        => messages' = messages ]_vars

\* C3: in a ready view with a current session, every turn of the transcript
\* belongs to the current session.
C3_ReadyTranscriptOfOneSession ==
  (viewState = "ready" /\ currentSession # Null) => TurnsAllOf(currentSession.id)

\* C4: in every state, switching included, the turns held are turns of the
\* session currentSession points to.
C4_TranscriptMatchesLabel ==
  currentSession # Null => \A i \in 1..Len(messages) : messages[i].sess = currentSession.id

\* C5: when boot ends in its catch block, the view is ready, the transcript is
\* empty and an error message is shown.
C5_FailedBootShowsEmpty ==
  (lastCall.op \in BootSteps /\ ~lastCall.ok)
    => (viewState = "ready" /\ messages = <<>> /\ error # "")

\* C6: if every gateway call settles, a view that is booting or switching
\* becomes ready.
C6_EventuallyReady ==
  (viewState \in {"booting", "switching"}) ~> (viewState = "ready")

C6_Witness ==
  /\ lastCall.op = "select.getChatHistory"
  /\ viewState = "ready"
  /\ bootPc = "done"
  /\ ~SwitchFetchIn(calls)

\* C7: when getChatHistory fails during selectSession, the continuation leaves
\* an empty transcript, a non-empty error message and a ready view.
C7_FailedSwitchShowsEmpty ==
  (lastCall.op = "select.getChatHistory" /\ ~lastCall.ok)
    => (messages = <<>> /\ error # "" /\ viewState = "ready")

C7_Witness ==
  /\ lastCall.op = "select.getChatHistory" /\ ~lastCall.ok
  /\ currentSession # Null
  /\ srvHistory[currentSession.id] # <<>>

C9_RejectedSendIsNoOp ==
  [][ ( /\ lastCall'.op = "sendMessage"
        /\ (trim(lastCall'.text) = <<>> \/ currentSession = Null \/ SendsInFlight > 0) )
      => UNCHANGED <<messages, sessions, currentSession, isLoading, error, calls>> ]_vars

C9_Witness ==
  /\ lastCall.op = "sendMessage" /\ ~lastCall.ok
  /\ lastCall.text = <<" ">>
  /\ currentSession # Null /\ ~isLoading

\* C10: at most one sendMessage call is in flight; an accepted send issues one
\* call and appends one user turn, a send made meanwhile does neither, and the
\* settling of the call appends exactly one turn.
C10_SingleFlightSend ==
  /\ [](SendsInFlight <= 1)
  /\ [][ /\ (lastCall'.op = "sendMessage" /\ lastCall'.ok)
            => ( /\ SendsInFlight = 0 /\ SendsInFlight' = 1
                 /\ Len(messages') = Len(messages) + 1
                 /\ messages'[Len(messages')].role = "user" )
         /\ (lastCall'.op = "sendMessage" /\ SendsInFlight > 0)
            => UNCHANGED <<messages, calls>>
         /\ (lastCall'.op = "send.sendMessage")
            => ( /\ SendsInFlight = 1 /\ SendsInFlight' = 0
                 /\ Len(messages') = Len(messages) + 1
                 /\ messages'[Len(messages')].role = "assistant" ) ]_vars

C10_Witness ==
  /\ lastCall.op = "sendMessage" /\ ~lastCall.ok
  /\ SendsInFlight = 1
  /\ isLoading

\* The optimistic user turn of a send call.
OptimisticTurn(c) == Turn(c.tempUserId, "user", c.message, "", c.sid)

Holds(seq, turn) == \E i \in 1..Len(seq) : seq[i] = turn

\* A turn with the role, text and session of `turn`, whatever its id.
HoldsTextOf(seq, turn) ==
  \E i \in 1..Len(seq) :
    seq[i].role = turn.role /\ seq[i].content = turn.content /\ seq[i].sess = turn.sess

\* A user turn whose id was read from the clock by sendMessage.
IsOptimistic(turn) == turn.role = "user" /\ turn.id >= ClockBase

\* C11: in every state where a send is in flight (isLoading, call not settled)
\* the transcript holds the user turn the send appended, with its text and its
\* temporary id.
C11_UserTurnWhileInFlight ==
  \A c \in InFlight : (IsSend(c) /\ isLoading) => Holds(messages, OptimisticTurn(c))

\* C12: a step that leaves the current session in place keeps every optimistic
\* user turn sent to that session in the transcript (a turn with the same role
\* and text for that session counts as the turn being kept).
C12_OptimisticTurnKept ==
  [][ \A i \in 1..Len(messages) :
        ( /\ IsOptimistic(messages[i])
          /\ currentSession # Null /\ currentSession' # Null
          /\ messages[i].sess = currentSession.id
          /\ currentSession'.id = currentSession.id )
        => HoldsTextOf(messages', messages[i]) ]_vars

\* C13: the failure of the sendMessage call appends exactly one turn, an
\* assistant turn with error_type "frontend_error" and the fallback text, sets a
\* non-empty error message, and changes no session counter.
C13_SendFailureTurn ==
  [][ (lastCall'.op = "send.sendMessage" /\ ~lastCall'.ok)
      => ( /\ Len(messages') = Len(messages) + 1
           /\ SubSeq(messages', 1, Len(messages)) = messages
           /\ messages'[Len(messages')].role = "assistant"
           /\ messages'[Len(messages')].error_type = "frontend_error"
           /\ messages'[Len(messages')].content = FallbackText
           /\ error' # ""
           /\ sessions' = sessions /\ currentSession' = currentSession
           /\ srvSessions' = srvSessions ) ]_vars

C13_Witness ==
  /\ lastCall.op = "send.sendMessage" /\ ~lastCall.ok
  /\ Len(messages) >= 2
  /\ messages[Len(messages)].error_type = "frontend_error"
  /\ error = "Failed to send message. Please try again."

\* C14: isLoading is true only while one sendMessage call is in flight, and if
\* every call settles a true isLoading becomes false again.
C14_LoadingIsReset ==
  /\ [](isLoading => SendsInFlight = 1)
  /\ (isLoading ~> ~isLoading)

C14_Witness ==
  /\ lastCall.op = "send.sendMessage" /\ ~lastCall.ok
  /\ ~isLoading /\ SendsInFlight = 0

\* C15: on a successful send the id of the appended assistant turn is the id
\* the service gave to the answer it stored.
C15_AssistantIdIsServerId ==
  [][ \A c \in InFlight :
        ( /\ IsSend(c)
          /\ lastCall' = Did("send.sendMessage", c.sid, TRUE) )
        => messages'[Len(messages')].id
             = srvHistory'[c.sid][Len(srvHistory'[c.sid])].id ]_vars

\* An id the client made up: Date.now(), tempUserId + 1, Date.now() + 1.
IsLocalId(id) == id >= ClockBase

\* submitFeedback calls in bag b issued by the bubble now mounted under key id.
\* (A call whose bubble was unmounted belongs to a message that is no longer
\* displayed; local ids can repeat, so a later message may reuse its key.)
FeedbackIn(b, id) ==
  LET RECURSIVE Count(_)
      Count(S) == IF S = {} THEN 0
                  ELSE LET c == CHOOSE x \in S : TRUE
                       IN (IF IsFeedback(c) /\ c.sid = id /\ c.mounted
                           THEN CopiesIn(c, b) ELSE 0)
                          + Count(S \ {c})
  IN Count(BagToSet(b))

FeedbackInFlightFor(id) == FeedbackIn(calls, id)

\* C16: handleFeedback on a user turn, or on a turn whose id was generated
\* locally, issues no call and changes no state; no submitFeedback call in
\* flight carries a locally generated id.
C16_NoFeedbackForLocalIds ==
  /\ [](\A c \in InFlight : IsFeedback(c) => ~IsLocalId(c.sid))
  /\ [][ ( /\ lastCall'.op = "handleFeedback"
           /\ (lastCall'.role = "user" \/ IsLocalId(lastCall'.sid)) )
         => UNCHANGED <<calls, bubbles>> ]_vars

\* C17: for one displayed message at most one submitFeedback call is in flight;
\* a handleFeedback made while one is in flight issues no call, and the settling
\* of the call issues none.
C17_SingleFlightFeedback ==
  /\ [](\A k \in DOMAIN bubbles : FeedbackInFlightFor(k) <= 1)
  /\ [][ /\ ( /\ lastCall'.op = "handleFeedback"
               /\ FeedbackInFlightFor(lastCall'.sid) > 0 )
            => UNCHANGED <<calls, bubbles>>
         /\ (lastCall'.op = "feedback.submitFeedback" /\ lastCall'.mounted /\ vars' # vars)
            => ( /\ FeedbackInFlightFor(lastCall'.sid) = 1
                 /\ FeedbackIn(calls', lastCall'.sid) = 0 ) ]_vars

C17_Witness ==
  /\ lastCall.op = "handleFeedback" /\ ~lastCall.ok
  /\ FeedbackInFlightFor(lastCall.sid) = 1
  /\ lastCall.sid \in DOMAIN bubbles
  /\ bubbles[lastCall.sid].submittingFeedback

\* C18: the feedback a mounted bubble displays changes only on the step where
\* a submitFeedback call for it succeeds, and then to the submitted value (null
\* for 0); the step that issues the call and the step where it fails leave it
\* as it was; both outcomes clear submittingFeedback.
C18_FeedbackOnlyOnSuccess ==
  [][ /\ \A k \in (DOMAIN bubbles) \cap (DOMAIN bubbles') :
            bubbles'[k].feedback # bubbles[k].feedback
            => ( /\ lastCall'.op = "feedback.submitFeedback" /\ lastCall'.ok
                 /\ lastCall'.sid = k
                 /\ bubbles'[k].feedback
                      = (IF lastCall'.value = 0 THEN <<>> ELSE <<lastCall'.value>>) )
      /\ ( /\ lastCall'.op = "feedback.submitFeedback" /\ lastCall'.mounted
           /\ vars' # vars )
         => ( /\ ~bubbles'[lastCall'.sid].submittingFeedback
              /\ lastCall'.ok
                   => bubbles'[lastCall'.sid].feedback
                        = (IF lastCall'.value = 0 THEN <<>> ELSE <<lastCall'.value>>)
              /\ ~lastCall'.ok
                   => bubbles'[lastCall'.sid].feedback = bubbles[lastCall'.sid].feedback ) ]_vars

C18_Witness ==
  /\ lastCall.op = "feedback.submitFeedback" /\ ~lastCall.ok /\ lastCall.mounted
  /\ bubbles[lastCall.sid].feedback = <<1>>
  /\ ~bubbles[lastCall.sid].submittingFeedback

\* C19: a step of ensureSessionId, listSessions, createSession, login or logout
\* (the mount effects, createNewSession, login with its continuations, logout)
\* and a reload of the page leave a stored anonymous token as it is; a
\* registration, which may store the token the service returns, is not among
\* them.
C19_TokenCreatedOnce ==
  [][ (session_id # <<>> /\ lastCall'.op # "register.register")
      => session_id' = session_id ]_vars

\* a second boot, after a reload, finds the token the first boot created
C19_Witness ==
  /\ lastCall.op = "boot" /\ nAuth >= 1
  /\ authPc # "mount"
  /\ session_id # <<>> /\ session_id # StoredToken
  /\ session_id[3] \in RandomSuffixes

\* C20: logout clears the stored credential, sets isAuthenticated false and
\* clears userId and email, leaves the anonymous token and the persisted
\* last-active session id as they are, and issues no call.
C20_LogoutIsLocal ==
  [][ (lastCall'.op = "logout" /\ vars' # vars)
      => ( /\ auth_token' = <<>>
           /\ ~isAuthenticated' /\ userId' = <<>> /\ email' = <<>>
           /\ UNCHANGED <<session_id, active_session_id, calls>> ) ]_vars

C20_Witness ==
  /\ lastCall.op = "logout"
  /\ session_id # <<>> /\ active_session_id # <<>>
  /\ auth_token = <<>> /\ ~isAuthenticated

Issued == {c \in BagToSet(calls') : CopiesIn(c, calls') > CopiesIn(c, calls)}

\* C22: every request carries the anonymous token stored when it is issued in
\* X-Session-Id, and carries an Authorization header exactly when a credential
\* is stored at that moment, with the stored value as bearer.
C22_HeadersFollowStorage ==
  /\ [](\A c \in InFlight : c.headers.xSessionId # <<>>)
  /\ [][ \A c \in Issued :
           /\ c.headers.xSessionId = session_id'
           /\ (c.headers.authorization # <<>>) <=> (auth_token' # <<>>)
           /\ auth_token' # <<>>
                => c.headers.authorization = <<"Bearer">> \o auth_token' ]_vars

\* a session is created by a signed-in user: both headers are on the request
C22_Witness ==
  \E c \in InFlight :
    /\ c.op = "createSession"
    /\ c.headers.authorization = <<"Bearer">> \o AccessToken
    /\ c.headers.xSessionId = session_id
    /\ isAuthenticated

\* steps of the user: the mount of the page and the four handlers
UserOps == {"boot", "selectSession", "createNewSession", "sendMessage", "handleFeedback"}

\* continuations of boot, switch, session creation, send and feedback
SettleOps ==
  {"boot.listSessions", "boot.createSession", "boot.getChatHistory",
   "select.getChatHistory", "new.createSession", "send.sendMessage",
   "feedback.submitFeedback"}

\* C23: a step puts at most one request in flight; the step on which a boot,
\* switch, session creation, send or feedback fails takes its own call out of
\* flight and issues none; a request is issued only by a step of the user or by
\* the successful continuation of boot or of a session creation that goes on to
\* create or fetch what it selected.
C23_NoAutomaticRetry ==
  [][ /\ BagCardinality(calls') <= BagCardinality(calls) + 1
      /\ (lastCall'.op \in SettleOps /\ ~lastCall'.ok)
         => BagCardinality(calls') = BagCardinality(calls) - 1
      /\ BagCardinality(calls') >= BagCardinality(calls)
         => \/ lastCall'.op \in UserOps
            \/ /\ lastCall'.op \in {"boot.listSessions", "boot.createSession",
                                   "new.createSession"}
               /\ lastCall'.ok ]_vars

\* a send has failed and nothing is in flight
C23_Witness ==
  /\ lastCall.op = "send.sendMessage" /\ ~lastCall.ok
  /\ calls = EmptyBag
  /\ bootPc = "done"

\* the first member of list whose id reads as the persisted text, <<>> if none
PersistedMember(list, raw) ==
  LET I == {i \in 1..Len(list) : raw # <<>> /\ String(list[i].id) = raw}
  IN IF I = {} THEN <<>> ELSE <<list[CHOOSE i \in I : \A j \in I : i <= j]>>

\* C24: boot selects the member of the returned list whose id is the persisted
\* last-active id when there is one, otherwise the first member of a non-empty
\* list, otherwise the session it creates; the selected session becomes current
\* and its id is persisted.
C24_BootSelectsPersisted ==
  [][ /\ (lastCall'.op = "boot.listSessions" /\ lastCall'.ok /\ srvSessions # <<>>)
         => LET m == PersistedMember(srvSessions, active_session_id)
                selected == IF m # <<>> THEN m[1] ELSE srvSessions[1]
            IN /\ currentSession' = selected
               /\ active_session_id' = String(selected.id)
      /\ (lastCall'.op = "boot.listSessions" /\ lastCall'.ok /\ srvSessions = <<>>)
         => \E c \in BagToSet(calls') : c.op = "createSession" /\ c.flow = "boot"
      /\ (lastCall'.op = "boot.createSession" /\ lastCall'.ok)
         => /\ srvSessions = <<>>
            /\ currentSession' = srvSessions'[1]
            /\ active_session_id' = String(currentSession'.id) ]_vars

\* C25: a send of the P4 message as the first message of a session whose title
\* is a placeholder gives the session the title the specification states for that message.
C25_TitleOfP4Message ==
  [][ ( /\ lastCall'.op = "sendMessage" /\ lastCall'.ok
        /\ lastCall'.text = P4Message
        /\ bootPc = "done" /\ messages = <<>>
        /\ IsPlaceholderTitle(currentSession.title) )
      => currentSession'.title = P4Title ]_vars

SendOps == {"sendMessage", "send.sendMessage"}

\* a title that is absent, empty, or "new chat" in any mix of cases
EmptyOrNewChat(title) ==
  \/ title = <<>>
  \/ /\ Len(title) = 8
     /\ toLowerCase(title) = <<"n","e","w"," ","c","h","a","t">>

\* C26: a step of a send (the handler or the settling of its call) changes a
\* cached title, in currentSession or in the session list, only if it is the
\* handler's step, the title was empty or "new chat" in any case, and the entry
\* is the one of the session the send is addressed to; the settling of the
\* call, failed or not, leaves every title as the handler left it.
C26_OnlyPlaceholderRetitled ==
  [][ lastCall'.op \in SendOps
      => /\ Len(sessions') = Len(sessions)
         /\ \A i \in 1..Len(sessions) :
              sessions'[i].title # sessions[i].title
              => /\ lastCall'.op = "sendMessage" /\ lastCall'.ok
                 /\ EmptyOrNewChat(sessions[i].title)
                 /\ sessions[i].id = lastCall'.sid
         /\ (currentSession # Null /\ currentSession' # currentSession)
              => /\ currentSession' # Null /\ currentSession'.id = currentSession.id
                 /\ currentSession'.title # currentSession.title
                    => /\ lastCall'.op = "sendMessage" /\ lastCall'.ok
                       /\ EmptyOrNewChat(currentSession.title)
                       /\ currentSession.id = lastCall'.sid ]_vars

\* a send into a session without title has failed; the inferred title is kept
C26_Witness ==
  /\ lastCall.op = "send.sendMessage" /\ ~lastCall.ok
  /\ currentSession # Null /\ currentSession.id = lastCall.sid
  /\ currentSession.title = <<"A">> \o Letters(TitleMax - 1)
  /\ \E i \in 1..Len(sessions) :
       sessions[i].id = lastCall.sid /\ sessions[i].title = currentSession.title
  /\ \E i \in 1..Len(sessions) : sessions[i].title = OldTitle

\* C27: an accepted send into a session of which the transcript already holds a
\* user turn leaves the cached title of that session as it is.
C27_TitleOnlyFromFirstUserTurn ==
  [][ ( /\ lastCall'.op = "sendMessage" /\ lastCall'.ok
        /\ \E i \in 1..Len(messages) :
             messages[i].role = "user" /\ messages[i].sess = lastCall'.sid )
      => ( /\ currentSession'.title = currentSession.title
           /\ \A i \in 1..Len(sessions) :
                sessions[i].id = lastCall'.sid => sessions'[i].title = sessions[i].title ) ]_vars

Counters(s) == <<s.message_count, s.assistant_message_count>>

\* C28: the step on which a send addressed to session X succeeds adds 2 to the
\* message_count and 1 to the assistant_message_count of X's entry in the
\* session list and leaves the counters of every other entry, whichever session
\* is current by then; the step on which a send fails leaves every counter.
C28_CountersOfAddressedSession ==
  [][ lastCall'.op = "send.sendMessage"
      => /\ Len(sessions') = Len(sessions)
         /\ \A i \in 1..Len(sessions) :
              /\ sessions'[i].id = sessions[i].id
              /\ Counters(sessions'[i])
                   = IF lastCall'.ok /\ sessions[i].id = lastCall'.sid
                     THEN <<sessions[i].message_count + 2,
                            sessions[i].assistant_message_count + 1>>
                     ELSE Counters(sessions[i])
         /\ lastCall'.ok => \E i \in 1..Len(sessions') : sessions'[i].id = lastCall'.sid ]_vars

\* C29: error holds the message of the failure that came last, and on the step
\* on which a boot, a switch (a session creation ends with one) or a send
\* completes successfully the displayed error message is empty.
C29_ErrorClearedOnSuccess ==
  [][ /\ ( /\ lastCall'.op \in {"boot.getChatHistory", "select.getChatHistory",
                                "send.sendMessage"}
           /\ lastCall'.ok )
         => error' = ""
      /\ (lastCall'.op \in SettleOps \ {"feedback.submitFeedback"} /\ ~lastCall'.ok)
         => error' # "" ]_vars

\* C30: the step on which a send is accepted appends its user turn while its
\* call is in flight and appends nothing else; the assistant turn or the error
\* turn of the send is appended on the step on which that call settles, a later
\* step, and on no other.
C30_UserTurnThenReply ==
  [][ /\ (lastCall'.op = "sendMessage" /\ lastCall'.ok)
         => /\ Len(messages') = Len(messages) + 1
            /\ SubSeq(messages', 1, Len(messages)) = messages
            /\ messages'[Len(messages')].role = "user"
            /\ messages'[Len(messages')].content = lastCall'.text
            /\ \E c \in BagToSet(calls') :
                 /\ IsSend(c) /\ c \notin InFlight
                 /\ c.tempUserId = messages'[Len(messages')].id
                 /\ c.message = lastCall'.text
      /\ lastCall'.op = "send.sendMessage"
         => /\ Len(messages') = Len(messages) + 1
            /\ SubSeq(messages', 1, Len(messages)) = messages
            /\ messages'[Len(messages')].role = "assistant"
            /\ (messages'[Len(messages')].error_type # "") <=> ~lastCall'.ok
            /\ SendsInFlight = 1
            /\ ~\E c \in BagToSet(calls') : IsSend(c)
      /\ ( /\ Len(messages') = Len(messages) + 1
           /\ SubSeq(messages', 1, Len(messages)) = messages
           /\ messages'[Len(messages')].role = "assistant" )
         => lastCall'.op = "send.sendMessage" ]_vars

\* the answer has been appended right after the user turn of its send
C30_Witness ==
  /\ lastCall.op = "send.sendMessage" /\ lastCall.ok
  /\ Len(messages) >= 2
  /\ messages[Len(messages) - 1].role = "user"
  /\ IsLocalId(messages[Len(messages) - 1].id)
  /\ messages[Len(messages)].role = "assistant"
  /\ messages[Len(messages)].sess = messages[Len(messages) - 1].sess
  /\ SendsInFlight = 0

\* C31: the turns held in the transcript have pairwise distinct ids.
C31_DistinctTurnIds ==
  \A i, j \in 1..Len(messages) : i # j => messages[i].id # messages[j].id

\* C32: the step on which createNewSession's createSession succeeds puts the
\* created session at the front of the session list, makes it current, persists
\* its id and issues the fetch of its history; the step on which it fails
\* leaves the list, the current session, the transcript and viewState and sets
\* the error message.
C32_CreateNewSession ==
  [][ /\ (lastCall'.op = "new.createSession" /\ lastCall'.ok)
         => /\ Len(sessions') = Len(sessions) + 1
            /\ sessions'[1].id = lastCall'.sid
            /\ SubSeq(sessions', 2, Len(sessions')) = sessions
            /\ currentSession' = sessions'[1]
            /\ active_session_id' = String(lastCall'.sid)
            /\ viewState' = "switching"
            /\ \E c \in BagToSet(calls') :
                 IsSwitchFetch(c) /\ c.sid = lastCall'.sid /\ c \notin InFlight
      /\ (lastCall'.op = "new.createSession" /\ ~lastCall'.ok)
         => /\ UNCHANGED <<sessions, currentSession, messages, viewState, active_session_id>>
            /\ error' # "" ]_vars

\* a third session has been created next to the two the service held
C32_Witness ==
  /\ lastCall = Did("new.createSession", 3, TRUE)
  /\ Len(sessions) = 3 /\ sessions[1].id = 3
  /\ currentSession = sessions[1]
  /\ active_session_id = String(3)

SessionIdsOf(list) == {list[i].id : i \in 1..Len(list)}

\* C33: no step removes a session from the in-memory session list.
C33_SessionsNeverRemoved ==
  [][ SessionIdsOf(sessions) \subseteq SessionIdsOf(sessions') ]_vars

\* the text a title is cut from: trimmed, each run of white space one space
Normalised(raw) == CollapseSpaces(trim(raw))

\* the part of a normalised text the title keeps
TitleBody(n) ==
  IF Len(n) <= 60 THEN n
  ELSE LET spaces == {i \in 0..59 : n[i + 1] = " "}
           last   == IF spaces = {} THEN -1 ELSE CHOOSE i \in spaces : \A j \in spaces : j <= i
       IN IF last >= 30 THEN SubSeq(n, 1, last) ELSE SubSeq(n, 1, 60)

\* C34: for every text, makeTitleCandidate gives at most 60 characters, without
\* white space at either end and without two white-space characters in a row;
\* a normalised text longer than 60 is cut at the last space within its first 60
\* characters when that space is at index 30 or later and at 60 otherwise; the
\* first character is upper-cased and the others are those of the normalised
\* text; a text without a non-white-space character gives "New chat".
C34_TitleCandidateShape ==
  lastCall.op = "makeTitleCandidate"
  => LET out == currentSession.title
         n   == Normalised(currentMessage)
     IN /\ Len(out) <= 60
        /\ out # <<>> /\ ~IsSpace(out[1]) /\ ~IsSpace(out[Len(out)])
        /\ \A i \in 1..(Len(out) - 1) : ~(IsSpace(out[i]) /\ IsSpace(out[i + 1]))
        /\ n = <<>> => out = <<"N","e","w"," ","c","h","a","t">>
        /\ n # <<>> => out = toUpperCase(TitleBody(n)[1]) \o Tail(TitleBody(n))

\* the transcript `after` is `before` with one turn added at its end
AppendsOne(before, after) ==
  /\ Len(after) = Len(before) + 1
  /\ SubSeq(after, 1, Len(before)) = before

\* C35: a step that changes the transcript either is the settling of a history
\* fetch of boot or of a switch, or appends one turn at its end; the steps of a
\* send and of feedback remove, reorder and modify no turn.
C35_TranscriptAppendOnly ==
  [][ /\ messages' # messages
         => \/ lastCall'.op \in {"boot.getChatHistory", "select.getChatHistory"}
            \/ AppendsOne(messages, messages')
      /\ lastCall'.op \in SendOps
         => messages' = messages \/ AppendsOne(messages, messages')
      /\ lastCall'.op \in {"handleFeedback", "feedback.submitFeedback"}
         => messages' = messages ]_vars

\* feedback has been stored for an answer; the transcript is as the send left it
C35_Witness ==
  /\ lastCall.op = "feedback.submitFeedback" /\ lastCall.ok /\ lastCall.mounted
  /\ Len(messages) >= 2
  /\ messages[Len(messages)].id = lastCall.sid
  /\ messages[Len(messages)].role = "assistant"
  /\ messages[Len(messages) - 1].role = "user"

\* C36: whenever a session is current, the persisted last-active session id is
\* the id of the current session.
C36_PersistedIsCurrent ==
  currentSession # Null => active_session_id = String(currentSession.id)

\* the user has switched while boot was still fetching the history it selected
C36_Witness ==
  /\ lastCall.op = "selectSession" /\ lastCall.ok
  /\ bootPc = "getChatHistory"
  /\ currentSession # Null /\ currentSession.id = lastCall.sid
  /\ active_session_id = String(lastCall.sid)
  /\ \E c \in InFlight : c.flow = "boot" /\ c.sid # lastCall.sid

\* a history fetch started by boot or by selectSession
IsHistoryFetch(c) == c.op = "getChatHistory"

\* C37: while a history fetch of boot or of selectSession is in flight,
\* viewState is "booting" or "switching".
C37_ReadyOnlyWhenFetched ==
  (\E c \in InFlight : IsHistoryFetch(c)) => viewState \in {"booting", "switching"}

\* C38: the in-memory session list holds no two entries with the same id.
C38_NoDuplicateSessions ==
  \A i, j \in 1..Len(sessions) : i # j => sessions[i].id # sessions[j].id

\* C39: the step on which a login or a registration fails, at its own call or
\* at the me() call that follows, leaves the stored credential and the stored
\* anonymous token, and after it a credential is stored only if the state is
\* authenticated.
C39_FailedSignInStoresNothing ==
  [][ ( /\ lastCall'.op \in {"login.login", "register.register", "signin.me"}
        /\ ~lastCall'.ok )
      => ( /\ UNCHANGED <<auth_token, session_id>>
           /\ auth_token' # <<>> => isAuthenticated' ) ]_vars

\* C40: auth initialisation ends with isReady true once its me() call settles.
\* Without a stored credential the mount effect becomes ready without issuing
\* a call and the state is anonymous; a rejected credential is removed from
\* storage and the state is anonymous; an accepted credential gives the
\* authenticated state with the user id and email that me() returned.
C40_AuthInitialisation ==
  /\ ~isReady ~> isReady
  /\ [][ /\ (lastCall'.op = "auth" /\ auth_token = <<>>)
            => /\ isReady'
               /\ calls' = calls
               /\ ~isAuthenticated' /\ userId' = <<>> /\ email' = <<>>
               /\ auth_token' = <<>>
         /\ (lastCall'.op = "auth.me" /\ ~lastCall'.ok)
            => /\ isReady'
               /\ auth_token' = <<>>
               /\ ~isAuthenticated' /\ userId' = <<>> /\ email' = <<>>
         /\ (lastCall'.op = "auth.me" /\ lastCall'.ok)
            => /\ isReady'
               /\ isAuthenticated'
               /\ userId' = <<Me.user_id>> /\ email' = <<Me.email>> ]_vars

\* a stored credential was rejected by me() at start-up
C40_Witness ==
  /\ lastCall.op = "auth.me" /\ ~lastCall.ok
  /\ isReady /\ auth_token = <<>> /\ ~isAuthenticated

====
